---- MODULE Spec2Model ----
(***************************************************************************)
(* Model of src/time.h: class Time, a (tv_sec, tv_usec) pair with          *)
(* arithmetic and comparison operators, and class Duration, which copies   *)
(* a Time's timeval and writes it as [Nd ]H:MM:SS[.uuuuuu].                *)
(*                                                                         *)
(* time_t, suseconds_t and unsigned long are 64 bits wide, int is 32.  The *)
(* code mixes them: operator/= and in_micros() compute in unsigned long,   *)
(* operator*= narrows a quotient to int, and a negative tv_sec or tv_usec  *)
(* becomes a number near 2^64.  These values are far beyond the 32-bit      *)
(* integers of TLC, so every long of the model is a Num: a                 *)
(* sequence of base-1000 digits, most significant first, all of the        *)
(* number's sign (9223372036854525808 is <<9,223,372,36,854,525,808>>,     *)
(* -500000 is <<-500, 0>>, zero is <<0>>).  The int and unsigned arguments  *)
(* of the operations are small and stay plain integers.                    *)
(***************************************************************************)
EXTENDS Integers, Sequences, FiniteSets, TLC

VARIABLES t, last, cmp, dur, made, out, n

vars == <<t, last, cmp, dur, made, out, n>>

(***************************************************************************)
(* Bounds of the model.                                                    *)
(***************************************************************************)
MaxOps == 2
MaxK == 4

(***************************************************************************)
(* Program constants.                                                      *)
(***************************************************************************)
MAX_USECS == 1000000
MINUTE == 60
HOUR == MINUTE * 60
DAY == HOUR * 24
INT_MAX == 2147483647

(***************************************************************************)
(* Arithmetic on Nums.  A digit vector is a sequence of plain integers of  *)
(* magnitude below 2 * 10^9, read in base 1000 like a Num; Canon gives the *)
(* Num of the same value.                                                  *)
(***************************************************************************)
Base == 1000

Abs(i) == IF i < 0 THEN -i ELSE i
Max(i, j) == IF i < j THEN j ELSE i

IsNeg(x) == x[1] < 0
Negated(v) == [i \in 1 .. Len(v) |-> -v[i]]

\* digit i of x written in w digits, w >= Len(x)
Digit(x, i, w) == IF i > w - Len(x) THEN x[i - (w - Len(x))] ELSE 0

\* without leading zeros
RECURSIVE Trim(_)
Trim(v) == IF Len(v) > 1 /\ v[1] = 0 THEN Trim(Tail(v)) ELSE v

\* v[1..i] with carry c added at position i: every entry but the first is
\* brought into 0 .. 999, the first is what is carried out
RECURSIVE Carry(_, _, _)
Carry(v, i, c) ==
    IF i = 0 THEN <<c>>
    ELSE Carry(v, i - 1, (v[i] + c) \div Base) \o <<(v[i] + c) % Base>>

\* p is a carried vector: p[1] is 0, or -1 when the value is negative
Settle(p) ==
    IF p[1] = 0 THEN Trim(p)
    ELSE Negated(Trim(Carry(Negated(p), Len(p), 0)))

Canon(v) == Settle(Carry(<<0, 0, 0>> \o v, Len(v) + 3, 0))

\* the Num of a plain integer
N(i) == Canon(<<i>>)

\* the plain integer of a Num of at most three digits
Small(x) == (Digit(x, 1, 3) * 1000000) + (Digit(x, 2, 3) * 1000) + Digit(x, 3, 3)

NNeg(x) == Negated(x)

NAdd(x, y) ==
    Canon([i \in 1 .. Max(Len(x), Len(y)) |->
              Digit(x, i, Max(Len(x), Len(y))) + Digit(y, i, Max(Len(x), Len(y)))])

NSub(x, y) ==
    Canon([i \in 1 .. Max(Len(x), Len(y)) |->
              Digit(x, i, Max(Len(x), Len(y))) - Digit(y, i, Max(Len(x), Len(y)))])

NLess(x, y) == IsNeg(NSub(x, y))
NLe(x, y) == ~NLess(y, x)

\* x * k for a plain integer k, |k| <= 2000000
NMul(x, k) == Canon([i \in 1 .. Len(x) |-> x[i] * k])

\* digits of |x| div d from position i on, r the remainder so far
RECURSIVE DivDigits(_, _, _, _)
DivDigits(x, i, r, d) ==
    IF i > Len(x) THEN <<>>
    ELSE <<((r * Base) + Abs(x[i])) \div d>>
           \o DivDigits(x, i + 1, ((r * Base) + Abs(x[i])) % d, d)

\* C's / and % of x by a plain integer d # 0, |d| <= 2097152: the quotient
\* is truncated toward zero and the remainder has the sign of x
NDiv(x, d) ==
    IF IsNeg(x) # (d < 0) THEN Negated(Trim(DivDigits(x, 1, 0, Abs(d))))
                          ELSE Trim(DivDigits(x, 1, 0, Abs(d)))

NRem(x, d) == NSub(x, NMul(NDiv(x, d), d))

(***************************************************************************)
(* The integer types of the code.                                          *)
(***************************************************************************)
TwoTo31 == <<2, 147, 483, 648>>
TwoTo32 == <<4, 294, 967, 296>>
TwoTo63 == <<9, 223, 372, 36, 854, 775, 808>>
TwoTo64 == <<18, 446, 744, 73, 709, 551, 616>>

\* x / 2^32 and x / 2^64 truncated, as plain integers (2^21 = 2097152)
Q32(x) == Small(NDiv(NDiv(x, 65536), 65536))
Q64(x) == Small(NDiv(NDiv(NDiv(NDiv(x, 2097152), 2097152), 2097152), 2))

\* the residue in 0 .. m - 1 of a remainder r with -m < r < m
Wrap(r, m) == IF IsNeg(r) THEN NAdd(r, m) ELSE r

\* the two's complement reading of u, 0 <= u < m, half = m / 2
Signed(u, half, m) == IF NLess(u, half) THEN u ELSE NSub(u, m)

\* conversion to unsigned long: the value modulo 2^64.  A Num of at most six
\* digits is below 10^18 < 2^63 in magnitude and converts to itself.
ToULong(x) ==
    IF ~IsNeg(x) /\ Len(x) <= 6 THEN x
    ELSE Wrap(NSub(x, NMul(TwoTo64, Q64(x))), TwoTo64)

\* conversion to long (time_t, suseconds_t): two's complement, 64 bits
ToLong(x) ==
    IF Len(x) <= 6 THEN x
    ELSE Signed(ToULong(x), TwoTo63, TwoTo64)

\* conversion to int: two's complement, 32 bits.  A Num of at most three
\* digits is below 10^9 < 2^31 in magnitude and converts to itself.
ToInt(x) ==
    IF Len(x) <= 3 THEN x
    ELSE Signed(Wrap(NSub(x, NMul(TwoTo32, Q32(x))), TwoTo32), TwoTo31, TwoTo32)

\* a signed long result that is not representable: undefined behaviour
Overflows(x) == Len(x) > 6 /\ ToLong(x) # x

\* unsigned long division by an int converted to unsigned long
ULDiv(u, d) ==
    IF d > 0 THEN NDiv(u, d)
    ELSE IF NLe(ToULong(N(d)), u) THEN N(1) ELSE N(0)

(***************************************************************************)
(* Constructors.  A Time is the record [tv_sec, tv_usec] of two Nums.      *)
(***************************************************************************)
Time_default == [tv_sec |-> N(0), tv_usec |-> N(0)]

Time_copy(x) == [tv_sec |-> x.tv_sec, tv_usec |-> x.tv_usec]

Time_micros_swapped(micros) ==
    [tv_sec |-> ToLong(NRem(micros, MAX_USECS)),
     tv_usec |-> ToLong(NDiv(micros, MAX_USECS))]

\* explicit Time(unsigned long micros)
Time_micros(micros) ==
    [tv_sec |-> ToLong(NDiv(micros, MAX_USECS)),
     tv_usec |-> ToLong(NRem(micros, MAX_USECS))]

\* explicit Time(time_t secondsSinceEpoch, suseconds_t micros = 0): no range check.
Time_secs(secondsSinceEpoch, micros) ==
    [tv_sec |-> secondsSinceEpoch, tv_usec |-> micros]

\* Time(s, us) for plain integers
T(s, us) == Time_secs(N(s), N(us))

\* Time& operator=(const Time& rhs): the receiver's _t becomes rhs._t.
OpAssign(lhs, rhs) == [tv_sec |-> rhs.tv_sec, tv_usec |-> rhs.tv_usec]

(***************************************************************************)
(* Accessors and comparison.                                               *)
(***************************************************************************)
seconds(x) == x.tv_sec
micros(x) == x.tv_usec

\* suseconds_t in_micros(): tv_sec and tv_usec are converted to unsigned
\* long, the sum is taken modulo 2^64 and converted back to long.
in_micros(x) ==
    ToLong(ToULong(NAdd(ToULong(NMul(ToULong(x.tv_sec), MAX_USECS)),
                        ToULong(x.tv_usec))))

OpEq(a, b) == in_micros(a) = in_micros(b)
OpNe(a, b) == ~OpEq(a, b)
OpGe_strict(a, b) == NLess(in_micros(b), in_micros(a))
OpGe(a, b) == NLe(in_micros(b), in_micros(a))
OpLe(a, b) == NLe(in_micros(a), in_micros(b))
OpGt(a, b) == NLess(in_micros(b), in_micros(a))
OpLt(a, b) == NLess(in_micros(a), in_micros(b))

(***************************************************************************)
(* timeradd / timersub of <sys/time.h>, as used by += and -=: the fields   *)
(* are added or subtracted, then one second is carried or borrowed.  The   *)
(* arithmetic is signed: a result that overflows is undefined behaviour,   *)
(* and the definitions give the two's complement result that a build       *)
(* without overflow trapping produces; the ...Overflows predicates say     *)
(* when that happens.                                                      *)
(***************************************************************************)
timeraddCarry_strict(sec, usec) ==
    IF NLess(N(1000000), usec)
      THEN [tv_sec |-> ToLong(NAdd(sec, N(1))),
            tv_usec |-> ToLong(NSub(usec, N(1000000)))]
      ELSE [tv_sec |-> sec, tv_usec |-> usec]

\* if ((result)->tv_usec >= 1000000) { ++(result)->tv_sec; (result)->tv_usec -= 1000000; }
timeraddCarry(sec, usec) ==
    IF NLe(N(1000000), usec)
      THEN [tv_sec |-> ToLong(NAdd(sec, N(1))),
            tv_usec |-> ToLong(NSub(usec, N(1000000)))]
      ELSE [tv_sec |-> sec, tv_usec |-> usec]

timeradd(a, b) ==
    timeraddCarry(ToLong(NAdd(a.tv_sec, b.tv_sec)), ToLong(NAdd(a.tv_usec, b.tv_usec)))

\* sec and usec are the exact sums of the fields
CarryOverflows(sec, usec) ==
    \/ Overflows(sec)
    \/ Overflows(usec)
    \/ (NLe(N(1000000), usec) /\ Overflows(NAdd(sec, N(1))))

timeraddOverflows(a, b) ==
    CarryOverflows(NAdd(a.tv_sec, b.tv_sec), NAdd(a.tv_usec, b.tv_usec))

timersubBorrow_on_zero(sec, usec) ==
    IF NLe(usec, N(0))
      THEN [tv_sec |-> ToLong(NSub(sec, N(1))),
            tv_usec |-> ToLong(NAdd(usec, N(1000000)))]
      ELSE [tv_sec |-> sec, tv_usec |-> usec]

\* if ((result)->tv_usec < 0) { --(result)->tv_sec; (result)->tv_usec += 1000000; }
timersubBorrow(sec, usec) ==
    IF NLess(usec, N(0))
      THEN [tv_sec |-> ToLong(NSub(sec, N(1))),
            tv_usec |-> ToLong(NAdd(usec, N(1000000)))]
      ELSE [tv_sec |-> sec, tv_usec |-> usec]

timersub(a, b) ==
    timersubBorrow(ToLong(NSub(a.tv_sec, b.tv_sec)), ToLong(NSub(a.tv_usec, b.tv_usec)))

\* sec and usec are the exact differences of the fields
BorrowOverflows(sec, usec) ==
    \/ Overflows(sec)
    \/ Overflows(usec)
    \/ (NLess(usec, N(0)) /\ Overflows(NSub(sec, N(1))))

timersubOverflows(a, b) ==
    BorrowOverflows(NSub(a.tv_sec, b.tv_sec), NSub(a.tv_usec, b.tv_usec))

\* _t.tv_sec = result.tv_sec; _t.tv_usec = result.tv_usec;
StoreResult(x, result) ==
    [x EXCEPT !.tv_sec = result.tv_sec, !.tv_usec = result.tv_usec]

\* Time& operator+=(const Time& rhs)
PlusAssign(x, rhs) == StoreResult(x, timeradd(x, rhs))

\* Time& operator-=(const Time& rhs)
MinusAssign(x, rhs) == StoreResult(x, timersub(x, rhs))

(***************************************************************************)
(* Scalar division and multiplication.                                     *)
(***************************************************************************)
DivAssign_drop_remainder(x, denominator) ==
    IF NLe(N(denominator), x.tv_sec)
      THEN [tv_sec |-> ToLong(NDiv(x.tv_sec, denominator)),
            tv_usec |-> ToLong(ULDiv(ToULong(x.tv_usec), denominator))]
      ELSE LET us == ToULong(NAdd(NMul(ToULong(x.tv_sec), MAX_USECS),
                                  ToULong(x.tv_usec)))
           IN [tv_sec |-> N(0), tv_usec |-> ToLong(ULDiv(us, denominator))]

\* Time& operator/=(int denominator), denominator # 0.  The comparison and
\* tv_sec / denominator, tv_sec % denominator are signed; remainder and
\* micros are unsigned long, so tv_sec and tv_usec are taken modulo 2^64 (a
\* negative tv_sec becomes a number near 2^64) and the quotient by the
\* denominator is converted back to long.
DivAssign(x, denominator) ==
    IF NLe(N(denominator), x.tv_sec)
      THEN LET remainder == ToULong(NRem(x.tv_sec, denominator))
               us == ToULong(NAdd(NMul(remainder, MAX_USECS), ToULong(x.tv_usec)))
           IN OpAssign(x, [tv_sec |-> ToLong(NDiv(x.tv_sec, denominator)),
                           tv_usec |-> ToLong(ULDiv(us, denominator))])
      ELSE LET us == ToULong(NAdd(NMul(ToULong(x.tv_sec), MAX_USECS),
                                  ToULong(x.tv_usec)))
           IN OpAssign(x, [tv_sec |-> N(0),
                           tv_usec |-> ToLong(ULDiv(us, denominator))])

\* r._t.tv_sec *= multiplier; r._t.tv_sec += secsToAdd;
MulSeconds(r, multiplier, secsToAdd) ==
    [r EXCEPT !.tv_sec = ToLong(NAdd(ToLong(NMul(@, multiplier)), secsToAdd))]

MulCarry_on_equal(r, multiplier, us) ==
    IF NLe(N(MAX_USECS), us)
      THEN MulSeconds([r EXCEPT !.tv_usec = ToLong(NRem(us, MAX_USECS))],
                      multiplier, ToInt(NDiv(us, MAX_USECS)))
      ELSE MulSeconds([r EXCEPT !.tv_usec = ToLong(us)], multiplier, N(0))

\* The body of operator*= after us, the unsigned long micros, is computed:
\* the carry is taken only when us > MAX_USECS, and the quotient by
\* MAX_USECS is narrowed to the int secsToAdd.
MulCarry(r, multiplier, us) ==
    IF NLess(N(MAX_USECS), us)
      THEN MulSeconds([r EXCEPT !.tv_usec = ToLong(NRem(us, MAX_USECS))],
                      multiplier, ToInt(NDiv(us, MAX_USECS)))
      ELSE MulSeconds([r EXCEPT !.tv_usec = ToLong(us)], multiplier, N(0))

\* Time& operator*=(int multiplier).  tv_usec * multiplier is a signed
\* product (undefined when it overflows; the two's complement result is
\* given) stored in an unsigned long.  r is a default-constructed Time, and
\* it is r's tv_sec (0), not the receiver's, that is multiplied.
MulAssign(x, multiplier) ==
    OpAssign(x, MulCarry(Time_default, multiplier,
                         ToULong(NMul(x.tv_usec, multiplier))))

MulAssignOverflows(x, multiplier) == Overflows(NMul(x.tv_usec, multiplier))

\* The unsigned int argument of operator/ and operator* passed to the int
\* parameter of /= and *=: values above INT_MAX wrap to negative.
UIntToInt(k) == IF k > INT_MAX THEN ((k - INT_MAX) - INT_MAX) - 2 ELSE k

(***************************************************************************)
(* Binary forms.                                                           *)
(***************************************************************************)
OpPlus(t1, t2) == PlusAssign(Time_copy(t1), t2)
OpPlusOffset(t1, offset) == OpPlus(t1, Time_micros(offset))
OpMinus(t1, t2) == MinusAssign(Time_copy(t1), t2)
OpMinusOffset(t1, offset) == OpMinus(t1, Time_micros(offset))
OpDiv(x, denominator) == DivAssign(Time_copy(x), UIntToInt(denominator))
OpMul(x, multiplier) == MulAssign(Time_copy(x), UIntToInt(multiplier))

(***************************************************************************)
(* Output stream: the text written so far and the formatting state that    *)
(* the manipulators set.  The width applies to the next insertion only.    *)
(***************************************************************************)
FreshStream == [text |-> "", width |-> 0, fill |-> " ", adjust |-> "right"]

setw(os, w) == [os EXCEPT !.width = w]
setfill(os, c) == [os EXCEPT !.fill = c]
right(os) == [os EXCEPT !.adjust = "right"]

RECURSIVE Repeat(_, _)
Repeat(c, k) == IF k <= 0 THEN "" ELSE c \o Repeat(c, k - 1)

\* os << item: pad to the pending width with the fill character, then reset it.
Insert(os, item) ==
    [os EXCEPT !.text = IF os.adjust = "left"
                          THEN @ \o item \o Repeat(os.fill, os.width - Len(item))
                          ELSE @ \o Repeat(os.fill, os.width - Len(item)) \o item,
               !.width = 0]

DigitStr == <<"0", "1", "2", "3", "4", "5", "6", "7", "8", "9">>

\* decimal text of a base-1000 digit, without and with leading zeros
RECURSIVE NatStr(_)
NatStr(v) ==
    IF v < 10 THEN DigitStr[v + 1]
    ELSE NatStr(v \div 10) \o DigitStr[(v % 10) + 1]

Str3(v) ==
    DigitStr[(v \div 100) + 1] \o DigitStr[((v \div 10) % 10) + 1]
        \o DigitStr[(v % 10) + 1]

RECURSIVE Str3s(_)
Str3s(ds) == IF ds = <<>> THEN "" ELSE Str3(Abs(Head(ds))) \o Str3s(Tail(ds))

\* decimal text of a Num, as operator<< writes a long or an unsigned long
NumStr(x) ==
    (IF IsNeg(x) THEN "-" ELSE "") \o NatStr(Abs(x[1])) \o Str3s(Tail(x))

(***************************************************************************)
(* Duration.                                                               *)
(***************************************************************************)
NoDuration == [none |-> TRUE]

\* explicit Duration(const Time& t, bool showMicros = false): _t(t._t), _su(showMicros)
Duration(x, showMicros) ==
    [_t |-> [tv_sec |-> x.tv_sec, tv_usec |-> x.tv_usec], _su |-> showMicros]

captured_by_reference(d, src) == src

\* The timeval a Duration reads: its own member _t, a struct held by value.
\* src is the Time the Duration was constructed from, as it is now.
captured(d, src) == d._t

\* operator<<(std::ostream&, const Duration&), step by step on p = [os, s]:
\* the stream and the local time_t s.  DAY, HOUR and MINUTE are unsigned
\* long, so s is converted to unsigned long in every quotient and remainder,
\* the quotients are written as unsigned long, and the remainder is
\* converted back when it is stored in s.

\* q is s / DAY: if (s / DAY) { os << s/DAY << "d "; s = s % DAY; }
WriteDaysIf(p, q) ==
    IF q # N(0)
      THEN [os |-> Insert(Insert(p.os, NumStr(q)), "d "),
            s |-> ToLong(NRem(ToULong(p.s), DAY))]
      ELSE p

WriteDays(p) == WriteDaysIf(p, NDiv(ToULong(p.s), DAY))

\* os << std::right; os << std::setfill('0') << s / HOUR << ':'; s = s % HOUR;
WriteHours(p) ==
    [os |-> Insert(Insert(setfill(right(p.os), "0"), NumStr(NDiv(ToULong(p.s), HOUR))),
                   ":"),
     s |-> ToLong(NRem(ToULong(p.s), HOUR))]

\* os << std::setw(2) << s / MINUTE << ':'; s = s % MINUTE;
WriteMinutes(p) ==
    [os |-> Insert(Insert(setw(p.os, 2), NumStr(NDiv(ToULong(p.s), MINUTE))), ":"),
     s |-> ToLong(NRem(ToULong(p.s), MINUTE))]

\* os << std::setw(2) << s;
WriteSeconds(p) == Insert(setw(p.os, 2), NumStr(p.s))

\* if (d._su) { os << '.' << std::setw(6) << std::setfill('0') << d._t.tv_usec; }
WriteMicros(os, d, src) ==
    IF d._su
      THEN Insert(setfill(setw(Insert(os, "."), 6), "0"), NumStr(captured(d, src).tv_usec))
      ELSE os

WriteDuration(os, d, src) ==
    setfill(WriteMicros(WriteSeconds(WriteMinutes(WriteHours(WriteDays(
                [os |-> os, s |-> captured(d, src).tv_sec])))), d, src), " ")

(***************************************************************************)
(* Inputs.                                                                 *)
(***************************************************************************)
SecVals == {-1, 0, 2}
UsecVals == {0, 500000, 999999}

\* the values the documentation works through
ExampleTimes ==
    { T(10, 0), T(0, 100), T(3661, 0), T(90000, 0), T(5, 250000), T(0, 250000) }

TimeInputs == { T(s, us) : s \in SecVals, us \in UsecVals } \cup ExampleTimes

\* right-hand operands of the statements
Operands == { T(s, us) : s \in {-1, 2}, us \in UsecVals }

MicroCounts == {0, 999999, 1000000, 1999999, 2500000}
MulVals == 1 .. MaxK
DivVals == (1 .. MaxK) \cup {1000}
DeltaVals == {5}

\* what gettimeofday may store: a normalized timeval
ClockVals == { T(s, us) : s \in {0, 1}, us \in {0, 123456} }

NoCmp == [none |-> TRUE]
NoTime == [none |-> TRUE]

Call(op, t0, u, arg) == [op |-> op, t0 |-> t0, u |-> u, arg |-> arg]

(***************************************************************************)
(* State machine.  t is a Time object, built by one of the constructors;   *)
(* each action is one statement on it.                                     *)
(* last records the statement just executed: its name, the value t had     *)
(* before it, its Time operand and its integer argument.  dur is a         *)
(* Duration object, made the Time and flag it was constructed from, out    *)
(* the stream it was last written to, n the number of statements so far.   *)
(***************************************************************************)
Init ==
    /\ \/ /\ t = Time_default
          /\ last = Call("Time()", NoTime, NoTime, 0)
       \/ \E m \in MicroCounts :
             /\ t = Time_micros(N(m))
             /\ last = Call("Time(micros)", NoTime, NoTime, m)
       \/ \E x \in TimeInputs :
             /\ t = Time_secs(x.tv_sec, x.tv_usec)
             /\ last = Call("Time(secs,micros)", NoTime, NoTime, 0)
    /\ cmp = NoCmp
    /\ dur = NoDuration
    /\ made = NoDuration
    /\ out = FreshStream
    /\ n = 0

Step(op, newT, u, arg) ==
    /\ last.op # "abort"
    /\ n < MaxOps
    /\ n' = n + 1
    /\ t' = newT
    /\ last' = Call(op, t, u, arg)

\* t = rhs
Assign ==
    \E rhs \in Operands :
        /\ Step("=", OpAssign(t, rhs), rhs, 0)
        /\ UNCHANGED <<cmp, dur, made, out>>

\* Time& now(): gettimeofday overwrites _t
Now ==
    \E clock \in ClockVals :
        /\ Step("now", clock, NoTime, 0)
        /\ UNCHANGED <<cmp, dur, made, out>>

\* Time& future(int secondsInFuture)
Future ==
    \E clock \in ClockVals, d \in DeltaVals :
        /\ Step("future", [clock EXCEPT !.tv_sec = ToLong(NAdd(@, N(d)))], NoTime, d)
        /\ UNCHANGED <<cmp, dur, made, out>>

\* Time& past(int secondsInPast)
Past ==
    \E clock \in ClockVals, d \in DeltaVals :
        /\ Step("past", [clock EXCEPT !.tv_sec = ToLong(NSub(@, N(d)))], NoTime, d)
        /\ UNCHANGED <<cmp, dur, made, out>>

AddAssign ==
    \E rhs \in Operands :
        /\ Step("+=", PlusAssign(t, rhs), rhs, 0)
        /\ UNCHANGED <<cmp, dur, made, out>>

SubAssign ==
    \E rhs \in Operands :
        /\ Step("-=", MinusAssign(t, rhs), rhs, 0)
        /\ UNCHANGED <<cmp, dur, made, out>>

\* t *= k
MulAssignStep ==
    \E k \in MulVals :
        /\ Step("*=", MulAssign(t, k), NoTime, k)
        /\ UNCHANGED <<cmp, dur, made, out>>

\* t /= d
DivAssignStep ==
    \E d \in DivVals :
        /\ Step("/=", DivAssign(t, d), NoTime, d)
        /\ UNCHANGED <<cmp, dur, made, out>>

\* t = t + rhs
Plus ==
    \E rhs \in Operands :
        /\ Step("+", OpAssign(t, OpPlus(t, rhs)), rhs, 0)
        /\ UNCHANGED <<cmp, dur, made, out>>

\* t = t - rhs
Minus ==
    \E rhs \in Operands :
        /\ Step("-", OpAssign(t, OpMinus(t, rhs)), rhs, 0)
        /\ UNCHANGED <<cmp, dur, made, out>>

\* t = t + offset
PlusOffset ==
    \E m \in MicroCounts :
        /\ Step("+offset", OpAssign(t, OpPlusOffset(t, N(m))), NoTime, m)
        /\ UNCHANGED <<cmp, dur, made, out>>

\* t = t - offset
MinusOffset ==
    \E m \in MicroCounts :
        /\ Step("-offset", OpAssign(t, OpMinusOffset(t, N(m))), NoTime, m)
        /\ UNCHANGED <<cmp, dur, made, out>>

\* t = t * k
Times ==
    \E k \in MulVals :
        /\ Step("*", OpAssign(t, OpMul(t, k)), NoTime, k)
        /\ UNCHANGED <<cmp, dur, made, out>>

\* t = t / d
Over ==
    \E d \in DivVals :
        /\ Step("/", OpAssign(t, OpDiv(t, d)), NoTime, d)
        /\ UNCHANGED <<cmp, dur, made, out>>

\* t = (t + rhs) - rhs
RoundTrip ==
    \E rhs \in Operands :
        /\ Step("(+)-", OpAssign(t, OpMinus(OpPlus(t, rhs), rhs)), rhs, 0)
        /\ UNCHANGED <<cmp, dur, made, out>>

\* the six relational operators applied to t and rhs
Compare ==
    \E rhs \in Operands :
        /\ Step("compare", t, rhs, 0)
        /\ cmp' = [eq |-> OpEq(t, rhs), ne |-> OpNe(t, rhs), ge |-> OpGe(t, rhs),
                   le |-> OpLe(t, rhs), gt |-> OpGt(t, rhs), lt |-> OpLt(t, rhs)]
        /\ UNCHANGED <<dur, made, out>>

\* Duration dur(t, showMicros)
MakeDuration ==
    \E su \in BOOLEAN :
        /\ Step("Duration", t, NoTime, 0)
        /\ dur' = Duration(t, su)
        /\ made' = [t |-> t, su |-> su]
        /\ UNCHANGED <<cmp, out>>

\* fresh stream << dur
Write ==
    /\ dur # NoDuration
    /\ Step("<<", t, NoTime, 0)
    /\ out' = WriteDuration(FreshStream, dur, t)
    /\ UNCHANGED <<cmp, dur, made>>

\* The statements on x whose signed arithmetic overflows: the additions and
\* subtractions of timeradd and timersub, and tv_usec * multiplier.
OverflowingCalls(x) ==
    { Call("abort", x, rhs, 0) :
        rhs \in { r \in Operands :
                    \/ timeraddOverflows(x, r)
                    \/ timersubOverflows(x, r)
                    \/ timersubOverflows(OpPlus(x, r), r) } }
    \cup
    { Call("abort", x, NoTime, m) :
        m \in { c \in MicroCounts :
                    \/ timeraddOverflows(x, Time_micros(N(c)))
                    \/ timersubOverflows(x, Time_micros(N(c))) } }
    \cup
    { Call("abort", x, NoTime, k) :
        k \in { c \in MulVals : MulAssignOverflows(x, c) } }

\* Signed overflow is undefined behaviour: besides the two's complement
\* result that the statements above give, a build that traps on overflow
\* ends the program there.
Trap ==
    /\ last.op # "abort"
    /\ n < MaxOps
    /\ \E c \in OverflowingCalls(t) :
          /\ n' = n + 1
          /\ last' = c
          /\ UNCHANGED <<t, cmp, dur, made, out>>

Next ==
    \/ Assign
    \/ Now \/ Future \/ Past
    \/ AddAssign \/ SubAssign \/ MulAssignStep \/ DivAssignStep
    \/ Plus \/ Minus \/ PlusOffset \/ MinusOffset \/ Times \/ Over
    \/ RoundTrip \/ Compare
    \/ MakeDuration \/ Write
    \/ Trap

Spec == Init /\ [][Next]_vars

(***************************************************************************)
(* Properties.                                                             *)
(***************************************************************************)
Normalized(x) == ~IsNeg(x.tv_usec) /\ NLess(x.tv_usec, N(MAX_USECS))

\* seconds * 1000000 + micros, exactly
Total(x) == NAdd(NMul(x.tv_sec, MAX_USECS), x.tv_usec)

Mutators == {"now", "future", "past", "=", "+=", "-=", "*=", "/="}

\* C1: every Time built by a constructor with micros in [0, 1000000) and
\* then changed by any sequence of +=, -=, *=, /=, +, -, *, / has its
\* microsecond field in [0, 1000000).
C1_MicrosNormalized == Normalized(t)

\* C2: for a and b with microsecond fields in [0, 1000000), (a + b) - b has
\* exactly the seconds field and the microsecond field of a, and compares
\* equal to a.
C2_AddSubRoundTrip ==
    (last.op = "(+)-" /\ Normalized(last.t0) /\ Normalized(last.u)) =>
        /\ t.tv_sec = last.t0.tv_sec
        /\ t.tv_usec = last.t0.tv_usec
        /\ OpEq(t, last.t0)

C2_Witness ==
    /\ last.op = "(+)-"
    /\ Normalized(last.t0) /\ Normalized(last.u)
    /\ NLe(N(MAX_USECS), NAdd(last.t0.tv_usec, last.u.tv_usec))
    /\ IsNeg(last.u.tv_sec)
    /\ t = last.t0

\* C3: after t *= k or t * k, for micros in [0, 1000000) and k positive,
\* the seconds field is the original seconds times k plus the carry taken
\* out of micros * k.
C3_MulScalesSeconds ==
    (last.op \in {"*=", "*"} /\ Normalized(last.t0)) =>
        LET product == NMul(last.t0.tv_usec, last.arg)
            carry == IF NLess(N(MAX_USECS), product)
                       THEN NDiv(product, MAX_USECS) ELSE N(0)
        IN t.tv_sec = NAdd(NMul(last.t0.tv_sec, last.arg), carry)

\* C4: for seconds >= 0, micros in [0, 1000000) and a positive denominator
\* d, t / d is the truncated quotient of the total microseconds by d, with
\* micros in [0, 1000000), in both branches; Time(10,0) / 4 is (2, 500000)
\* and Time(0,100) / 1000 is (0, 0).
C4_DivIsTruncatingTotal ==
    (last.op \in {"/=", "/"} /\ ~IsNeg(last.t0.tv_sec) /\ Normalized(last.t0)) =>
        /\ Total(t) = NDiv(Total(last.t0), last.arg)
        /\ Normalized(t)
        /\ (last.t0 = T(10, 0) /\ last.arg = 4) => t = T(2, 500000)
        /\ (last.t0 = T(0, 100) /\ last.arg = 1000) => t = T(0, 0)

C4_Witness ==
    /\ last.op = "/"
    /\ last.t0 = T(10, 0)
    /\ last.arg = 4
    /\ NLe(N(last.arg), last.t0.tv_sec)
    /\ t = T(2, 500000)

\* the number written in at least two digits
Pad2(x) == Repeat("0", 2 - Len(NumStr(x))) \o NumStr(x)

Pad6(x) == Repeat("0", 6 - Len(NumStr(x))) \o NumStr(x)

\* [Nd ]HH:MM:SS[.uuuuuu] for seconds >= 0
PaddedText(tv, su) ==
    LET s == tv.tv_sec
        r == NRem(s, DAY)
    IN (IF NLe(N(DAY), s) THEN NumStr(NDiv(s, DAY)) \o "d " ELSE "")
         \o Pad2(NDiv(r, HOUR)) \o ":" \o Pad2(NDiv(NRem(r, HOUR), MINUTE)) \o ":"
         \o Pad2(NRem(r, MINUTE))
         \o (IF su THEN "." \o Pad6(tv.tv_usec) ELSE "")

\* C5: a Duration with seconds s >= 0 written to a fresh stream gives the
\* days only when s >= 86400, then hours, minutes and seconds of s mod 86400
\* each zero-padded to two digits, then '.' and six digits of microseconds
\* when the flag is set.
C5_DurationRendering ==
    (last.op = "<<" /\ ~IsNeg(dur._t.tv_sec)) =>
        out.text = PaddedText(dur._t, dur._su)

\* C6: the relational operators are a total order on in_micros: a < b iff
\* a.in_micros() < b.in_micros(), exactly one of <, ==, > holds, != negates
\* ==, <= negates >, >= negates <.
C6_TotalOrder ==
    last.op = "compare" =>
        LET a == last.t0
            b == last.u
        IN /\ cmp.lt <=> NLess(in_micros(a), in_micros(b))
           /\ Cardinality({x \in {"lt", "eq", "gt"} : cmp[x]}) = 1
           /\ cmp.ne <=> ~cmp.eq
           /\ cmp.le <=> ~cmp.gt
           /\ cmp.ge <=> ~cmp.lt

C6_Witness ==
    /\ last.op = "compare"
    /\ IsNeg(last.t0.tv_sec)
    /\ last.t0.tv_sec = last.u.tv_sec
    /\ NLess(last.u.tv_usec, last.t0.tv_usec)
    /\ cmp.gt /\ cmp.ge /\ cmp.ne /\ ~cmp.lt /\ ~cmp.le /\ ~cmp.eq

\* C7: once a Duration is constructed from t, the seconds, microseconds and
\* flag it reads, and the text it writes, stay those of t at construction,
\* whatever is done to t afterwards.
C7_DurationSnapshot ==
    dur # NoDuration =>
        /\ captured(dur, t) = made.t
        /\ dur._su = made.su
        /\ WriteDuration(FreshStream, dur, t).text
             = WriteDuration(FreshStream, Duration(made.t, made.su), made.t).text

C7_Witness ==
    /\ dur # NoDuration
    /\ last.op \in Mutators
    /\ t # made.t
    /\ captured(dur, t) = made.t

\* C8: Time(m) has seconds m div 1000000 and micros m mod 1000000, so it is
\* normalized and its in_micros() is m.
C8_FromMicros ==
    last.op = "Time(micros)" =>
        /\ seconds(t) = N(last.arg \div 1000000)
        /\ micros(t) = N(last.arg % 1000000)
        /\ Normalized(t)
        /\ in_micros(t) = N(last.arg)

C8_Witness ==
    /\ last.op = "Time(micros)"
    /\ last.arg = 2500000
    /\ t = T(2, 500000)

\* C9: in t *= k with micros in [0, 1000000), a product micros * k of exactly
\* 1000000 takes no carry: the microsecond field is 1000000 and nothing is
\* added to the seconds; a product above 1000000 carries product div 1000000
\* and leaves product mod 1000000.  (The seconds the carry is added to are
\* those of the default-constructed r, times k.)
C9_MulBoundary ==
    (last.op \in {"*=", "*"} /\ Normalized(last.t0)) =>
        LET product == NMul(last.t0.tv_usec, last.arg)
            base == NMul(Time_default.tv_sec, last.arg)
        IN /\ product = N(MAX_USECS) =>
                (t.tv_usec = N(MAX_USECS) /\ t.tv_sec = base)
           /\ NLess(N(MAX_USECS), product) =>
                (t.tv_usec = NRem(product, MAX_USECS)
                    /\ t.tv_sec = NAdd(base, NDiv(product, MAX_USECS)))

C9_Witness ==
    /\ last.op = "*="
    /\ Normalized(last.t0)
    /\ NMul(last.t0.tv_usec, last.arg) = N(MAX_USECS)
    /\ t = T(0, 1000000)

\* C10: for a and b with micros in [0, 1000000), a + b has the sum and a - b
\* the difference of the totals of microseconds, with the microsecond field
\* in [0, 1000000), also when a < b and the seconds come out negative; the
\* same with an unsigned microsecond count on the right.
C10_AddSubExact ==
    /\ (last.op \in {"+=", "+"} /\ Normalized(last.t0) /\ Normalized(last.u)) =>
         /\ in_micros(t) = NAdd(in_micros(last.t0), in_micros(last.u))
         /\ in_micros(t) = NAdd(Total(last.t0), Total(last.u))
         /\ Normalized(t)
    /\ (last.op \in {"-=", "-"} /\ Normalized(last.t0) /\ Normalized(last.u)) =>
         /\ in_micros(t) = NSub(in_micros(last.t0), in_micros(last.u))
         /\ in_micros(t) = NSub(Total(last.t0), Total(last.u))
         /\ Normalized(t)
    /\ (last.op = "+offset" /\ Normalized(last.t0)) =>
         /\ in_micros(t) = NAdd(in_micros(last.t0), N(last.arg))
         /\ Normalized(t)
    /\ (last.op = "-offset" /\ Normalized(last.t0)) =>
         /\ in_micros(t) = NSub(in_micros(last.t0), N(last.arg))
         /\ Normalized(t)

C10_Witness ==
    /\ last.op = "-"
    /\ Normalized(last.t0) /\ Normalized(last.u)
    /\ OpLt(last.t0, last.u)
    /\ IsNeg(t.tv_sec)
    /\ NLess(N(0), t.tv_usec)
    /\ in_micros(t) = NSub(in_micros(last.t0), in_micros(last.u))

====
